---------------------------- MODULE Spec2Model ----------------------------
(***************************************************************************)
(* Model of scripts/extrator_nf.py: the pattern catalog, the field         *)
(* extractor (extrair_info), the value normalizer (limpar_valor), the      *)
(* document processor (processar_pdf), the report builder (gerar_excel)    *)
(* and the batch controller (main).                                        *)
(*                                                                         *)
(* Python values are records [t, s, n, d, e]:                              *)
(*   t = "None"                      the value None                        *)
(*   t = "NaN"                       pandas' missing-cell marker           *)
(*   t = "str",   s = <<chars>>      a string, one 1-character string per  *)
(*                                   position                              *)
(*   t = "float", n / d              a number, d a power of ten, with no   *)
(*                                   trailing zero in n unless d = 1       *)
(*   t = "raise", e = exception      an exception leaving the call         *)
(***************************************************************************)
EXTENDS Integers, Sequences, FiniteSets, TLC

VARIABLES
    pc,         \* position of the routine being run
    valor,      \* limpar_valor: its argument
    retorno,    \* limpar_valor / extrair_info: the value returned
    log,        \* records written through logging.*
    texto,      \* extrair_info / processar_pdf: the document's text
    padroes,    \* extrair_info: its padroes argument
    tentados,   \* extrair_info: indices of the patterns given to re.search
    documento,  \* processar_pdf: the file it is given
    dados,      \* processar_pdf: the record returned, or Nada for None
    pasta,      \* main: the input directory, as os.listdir finds it
    arquivos,   \* main: the .pdf entries of the directory
    idx,        \* main: index in arquivos of the file the loop is at
    registros,  \* main / gerar_excel: the list of records
    processados,\* main: names of the files given to processar_pdf, in order
    gerador,    \* the GeradorRelatorio of the run
    chamadas,   \* the record lists gerar_excel was called with, in order
    disco,      \* the files of SAIDA_DIR: [caminho, execucao, tabela]
    sobrescritos,\* the files of SAIDA_DIR that a later write replaced
    relogio,    \* wall clock, in seconds
    execucao    \* number of the run of the program

varsValor == <<valor>>
varsExtrair == <<texto, padroes, tentados>>
varsPdf == <<documento, dados>>
varsMain == <<pasta, arquivos, idx, registros, processados>>
varsExcel == <<gerador, chamadas, disco, sobrescritos>>
varsRelogio == <<relogio, execucao>>

vars == <<pc, retorno, log, varsValor, varsExtrair, varsPdf, varsMain, varsExcel,
          varsRelogio>>

-----------------------------------------------------------------------------
(* Bounds of the explored inputs *)

MaxValorLen == 4
MaxTextoLen == 4
MaxPadroes == 2
MaxPaginas == 2
MaxRegistros == 2
MaxArquivos == 3
MaxExecucoes == 2
MaxChamadas == 3
MaxRelogio == 120
PassoRelogio == 20

-----------------------------------------------------------------------------
(* Python values *)

None == [t |-> "None", s |-> <<>>, n |-> 0, d |-> 1, e |-> ""]
NaN == [t |-> "NaN", s |-> <<>>, n |-> 0, d |-> 1, e |-> ""]
Str(cs) == [t |-> "str", s |-> cs, n |-> 0, d |-> 1, e |-> ""]
Raise(name) == [t |-> "raise", s |-> <<>>, n |-> 0, d |-> 1, e |-> name]

(* the result of processar_pdf: a record of fields, or None *)
Nada == [ok |-> FALSE, dados |-> [c \in {} |-> None]]
Algum(d) == [ok |-> TRUE, dados |-> d]

SemDocumento == [nome |-> <<>>, erro |-> FALSE, paginas |-> <<>>]
SemPasta == [listavel |-> TRUE, entradas |-> <<>>]
SemGerador == [saida_arquivo |-> <<>>, criado |-> 0]

(* the variables a specification does not use stay at these values *)
ValorParado == valor = None
ExtrairParado ==
    /\ texto = <<>>
    /\ padroes = [lista |-> TRUE, ps |-> <<>>]
    /\ tentados = <<>>
PdfParado == documento = SemDocumento /\ dados = Nada
MainParado ==
    /\ pasta = SemPasta
    /\ arquivos = <<>>
    /\ idx = 0
    /\ registros = <<>>
    /\ processados = <<>>
ExcelParado ==
    /\ gerador = SemGerador
    /\ chamadas = <<>>
    /\ disco = {}
    /\ sobrescritos = {}
RelogioParado == relogio = 0 /\ execucao = 0

RECURSIVE Reduz(_, _)
Reduz(n, d) == IF d > 1 /\ n % 10 = 0 THEN Reduz(n \div 10, d \div 10) ELSE <<n, d>>

Float(n, d) ==
    LET r == Reduz(n, d)
    IN  [t |-> "float", s |-> <<>>, n |-> r[1], d |-> r[2], e |-> ""]

Digitos == {"0", "1", "2", "3", "4", "5", "6", "7", "8", "9"}
DigitoVal == [c \in Digitos |->
    CASE c = "0" -> 0 [] c = "1" -> 1 [] c = "2" -> 2 [] c = "3" -> 3
      [] c = "4" -> 4 [] c = "5" -> 5 [] c = "6" -> 6 [] c = "7" -> 7
      [] c = "8" -> 8 [] c = "9" -> 9]

Brancos == {" ", "\n", "\t"}

(* str.strip() *)
RECURSIVE LStrip(_)
LStrip(cs) == IF cs # <<>> /\ Head(cs) \in Brancos THEN LStrip(Tail(cs)) ELSE cs

RECURSIVE RStrip(_)
RStrip(cs) ==
    IF cs # <<>> /\ cs[Len(cs)] \in Brancos
    THEN RStrip(SubSeq(cs, 1, Len(cs) - 1))
    ELSE cs

strip(cs) == RStrip(LStrip(cs))

(* str.replace(old, new) for a one-character old; new is a string *)
RECURSIVE replace(_, _, _)
replace(cs, old, new) ==
    IF cs = <<>> THEN <<>>
    ELSE (IF Head(cs) = old THEN new ELSE <<Head(cs)>>) \o replace(Tail(cs), old, new)

Truthy(v) ==
    CASE v.t = "None" -> FALSE
      [] v.t = "str" -> v.s # <<>>
      [] v.t = "float" -> v.n # 0
      [] OTHER -> TRUE

-----------------------------------------------------------------------------
(* float(str), over strings of digits, ".", ",", "-", "+", blanks and      *)
(* characters no float literal holds: optional blanks, an optional sign,   *)
(* digits with at most one "." and at least one digit; anything else is a  *)
(* ValueError.                                                             *)

RECURSIVE Mantissa(_, _)
Mantissa(cs, acc) ==
    IF cs = <<>> THEN acc
    ELSE IF Head(cs) = "." THEN Mantissa(Tail(cs), acc)
    ELSE Mantissa(Tail(cs), 10 * acc + DigitoVal[Head(cs)])

RECURSIVE Pot10(_)
Pot10(k) == IF k = 0 THEN 1 ELSE 10 * Pot10(k - 1)

PosPonto(cs) == IF \E k \in 1..Len(cs) : cs[k] = "."
                THEN CHOOSE k \in 1..Len(cs) : cs[k] = "."
                ELSE 0

float(cs) ==
    LET a == strip(cs)
        sinal == IF a # <<>> /\ Head(a) = "-" THEN -1 ELSE 1
        b == IF a # <<>> /\ Head(a) \in {"-", "+"} THEN Tail(a) ELSE a
        pontos == Cardinality({k \in 1..Len(b) : b[k] = "."})
        digs == Cardinality({k \in 1..Len(b) : b[k] \in Digitos})
        ok == /\ \A k \in 1..Len(b) : b[k] \in Digitos \cup {"."}
              /\ pontos <= 1
              /\ digs >= 1
    IN  IF ok
        THEN Float(sinal * Mantissa(b, 0),
                   IF pontos = 1 THEN Pot10(Len(b) - PosPonto(b)) ELSE 1)
        ELSE Raise("ValueError")

-----------------------------------------------------------------------------
(* ProcessadorPDF.limpar_valor *)

Zero == Float(0, 1)

ZeroToken == <<"0", ",", "0", "0">>

(* variant: the two replacements in the other order *)
limpar_valor_try_ordem_trocada(v) ==
    IF v.t # "str" THEN Raise("AttributeError")
    ELSE float(replace(replace(v.s, ",", <<".">>), ".", <<>>))

(* the value the try block computes: a float, or the exception raised *)
limpar_valor_try(v) ==
    IF v.t # "str" THEN Raise("AttributeError")
    ELSE float(replace(replace(v.s, ".", <<>>), ",", <<".">>))

limpar_valor(v) ==
    IF v = None \/ v = Str(<<>>) \/ v = Str(ZeroToken) THEN Zero
    ELSE LET r == limpar_valor_try(v)
         IN  IF r.t = "raise" /\ r.e = "ValueError" THEN Zero ELSE r

limpar_valor_avisa(v) ==
    /\ ~(v = None \/ v = Str(<<>>) \/ v = Str(ZeroToken))
    /\ limpar_valor_try(v) = Raise("ValueError")

-----------------------------------------------------------------------------
(* Specification of limpar_valor over bounded arguments *)

AlfabetoValor == {"0", "1", "5", ".", ",", "-", "x"}

RECURSIVE SeqsAte(_, _)
SeqsAte(S, k) ==
    IF k = 0 THEN {<<>>}
    ELSE LET menores == SeqsAte(S, k - 1)
         IN  menores \cup {Append(q, c) : q \in {m \in menores : Len(m) = k - 1}, c \in S}

Amostra1234 == <<"1", ".", "2", "3", "4", ",", "5", "6">>
Amostra1500 == <<"1", ".", "5", "0", "0", ",", "0", "0">>

EntradasValor ==
    {None, Float(15, 10)}
      \cup {Str(cs) : cs \in SeqsAte(AlfabetoValor, MaxValorLen)}
      \cup {Str(Amostra1234), Str(Amostra1500), Str(<<" ", "1", ",", "5", "\n">>)}

InitValor ==
    /\ pc = "limpar_valor"
    /\ valor \in EntradasValor
    /\ retorno = None
    /\ log = <<>>
    /\ ExtrairParado /\ PdfParado /\ MainParado /\ ExcelParado /\ RelogioParado

LimparValor ==
    /\ pc = "limpar_valor"
    /\ retorno' = limpar_valor(valor)
    /\ log' = IF limpar_valor_avisa(valor) THEN Append(log, "warning") ELSE log
    /\ pc' = "done"
    /\ UNCHANGED <<varsValor, varsExtrair, varsPdf, varsMain, varsExcel, varsRelogio>>

NextValor == LimparValor

SpecValor == InitValor /\ [][NextValor]_vars


(* what the documentation of the normalizer asks of a string: every period *)
(* deleted, every comma turned into the decimal point                      *)
SemPontos(cs) == SelectSeq(cs, LAMBDA c : c # ".")
VirgulaParaPonto(cs) == [k \in 1..Len(cs) |-> IF cs[k] = "," THEN "." ELSE cs[k]]
NumeroLido(cs) == float(VirgulaParaPonto(SemPontos(cs)))

\* C4: limpar_valor, given None or any string, returns a float and raises
\* nothing: None, "" and "0,00" give 0.0; any other string gives the number
\* read after deleting the periods and turning the comma into a point
\* ("1.234,56" gives 1234.56), and 0.0 when that does not parse.
C4_LimparValorTotal ==
    (pc = "done" /\ valor.t \in {"None", "str"}) =>
        /\ retorno.t = "float"
        /\ (valor \in {None, Str(<<>>), Str(ZeroToken)} => retorno = Float(0, 1))
        /\ (valor = Str(Amostra1234) => retorno = Float(123456, 100))
        /\ (valor.t = "str" /\ valor.s \notin {<<>>, ZeroToken} =>
                retorno = IF NumeroLido(valor.s).t = "float"
                          THEN NumeroLido(valor.s)
                          ELSE Float(0, 1))

C4_Witness ==
    /\ pc = "done"
    /\ valor = Str(Amostra1234)
    /\ retorno = Float(123456, 100)

-----------------------------------------------------------------------------
(* re.search(padrao, texto, re.IGNORECASE | re.MULTILINE | re.DOTALL)      *)
(*                                                                         *)
(* A pattern is a sequence of items, each a run of literal characters or a *)
(* character class with a repetition {min,max} (max = -1: unbounded),      *)
(* greedy or lazy, and one capture group spanning items g0..g1 (g0 = 0:    *)
(* the pattern has no group).                                              *)
(* Every pattern of carregar_padroes has this shape: no alternation, no    *)
(* anchors (so re.MULTILINE changes nothing), no nested group.  erro marks *)
(* a pattern re.compile rejects.  The matcher backtracks in the engine's   *)
(* priority order: leftmost start, longest repetition first for a greedy   *)
(* item and shortest first for a lazy one.                                 *)

Maiusculas ==
    <<"A", "B", "C", "D", "E", "F", "G", "H", "I", "J", "K", "L", "M",
      "N", "O", "P", "Q", "R", "S", "T", "U", "V", "W", "X", "Y", "Z",
      "Á", "Ã", "Ç", "É", "Í", "Ó", "Ô", "Õ", "Ú">>
Minusculas ==
    <<"a", "b", "c", "d", "e", "f", "g", "h", "i", "j", "k", "l", "m",
      "n", "o", "p", "q", "r", "s", "t", "u", "v", "w", "x", "y", "z",
      "á", "ã", "ç", "é", "í", "ó", "ô", "õ", "ú">>

(* re.IGNORECASE: both sides are compared case-folded *)
MinusculaDe ==
    [c \in {Maiusculas[k] : k \in 1..Len(Maiusculas)} |->
        Minusculas[CHOOSE k \in 1..Len(Maiusculas) : Maiusculas[k] = c]]

Minuscula(c) == IF c \in DOMAIN MinusculaDe THEN MinusculaDe[c] ELSE c

(* a character class repeated min..max times *)
Item(cs, neg, min, max, lazy) ==
    [lit |-> <<>>, cs |-> {Minuscula(c) : c \in cs}, neg |-> neg,
     min |-> min, max |-> max, lazy |-> lazy]

(* a run of literal characters *)
Lits(cs) ==
    [lit |-> [k \in 1..Len(cs) |-> Minuscula(cs[k])], cs |-> {}, neg |-> FALSE,
     min |-> 1, max |-> 1, lazy |-> FALSE]

Lit(c) == Lits(<<c>>)

AZ == {Maiusculas[k] : k \in 1..26}

Casa(c, item) == (Minuscula(c) \in item.cs) # item.neg

Falha == [ok |-> FALSE, fim |-> 0, gi |-> 0, gf |-> 0]

Minimo(S) == CHOOSE x \in S : \A y \in S : x <= y
Maximo(S) == CHOOSE x \in S : \A y \in S : x >= y

(* the longest run of characters of the item's class from pos, up to max *)
Corrida(item, txt, pos) ==
    LET ate == IF item.max = -1 \/ pos + item.max - 1 > Len(txt)
               THEN Len(txt) ELSE pos + item.max - 1
        fora == {j \in pos..ate : ~Casa(txt[j], item)}
    IN  IF fora = {} THEN ate - pos + 1 ELSE Minimo(fora) - pos

(* the positions of group 1, set when its first and last items are matched *)
ComGrupo(p, k, pos, n, r) ==
    [ok |-> TRUE, fim |-> r.fim,
     gi |-> IF k = p.g0 THEN pos ELSE r.gi,
     gf |-> IF k = p.g1 THEN pos + n ELSE r.gf]

RECURSIVE CasaItens(_, _, _, _)
RECURSIVE CasaRep(_, _, _, _, _)

(* the literal run of the item is in txt at pos *)
CasaLits(item, txt, pos) ==
    /\ pos + Len(item.lit) - 1 <= Len(txt)
    /\ \A j \in 1..Len(item.lit) : Minuscula(txt[pos + j - 1]) = item.lit[j]

(* items k.. of the pattern against txt from pos *)
CasaItens(p, txt, k, pos) ==
    IF k > Len(p.itens) THEN [ok |-> TRUE, fim |-> pos, gi |-> 0, gf |-> 0]
    ELSE LET item == p.itens[k]
         IN  IF item.lit # <<>>
             THEN IF CasaLits(item, txt, pos)
                  THEN LET r == CasaItens(p, txt, k + 1, pos + Len(item.lit))
                       IN  IF r.ok THEN ComGrupo(p, k, pos, Len(item.lit), r) ELSE Falha
                  ELSE Falha
             ELSE LET maxn == Corrida(item, txt, pos)
                  IN  IF maxn < item.min THEN Falha ELSE CasaRep(p, txt, k, pos, maxn)

(* item k repeated n times, then the rest, for the first n in priority     *)
(* order for which the rest matches: the largest for a greedy item, the    *)
(* smallest for a lazy one                                                 *)
CasaRep(p, txt, k, pos, maxn) ==
    LET item == p.itens[k]
        bons == {n \in item.min..maxn : CasaItens(p, txt, k + 1, pos + n).ok}
    IN  IF bons = {} THEN Falha
        ELSE LET n == IF item.lazy THEN Minimo(bons) ELSE Maximo(bons)
             IN  ComGrupo(p, k, pos, n, CasaItens(p, txt, k + 1, pos + n))

(* the leftmost position from which the pattern matches *)
Procura(p, txt) ==
    LET inicios == {i \in 1..(Len(txt) + 1) : CasaItens(p, txt, 1, i).ok}
    IN  IF inicios = {} THEN Falha ELSE CasaItens(p, txt, 1, Minimo(inicios))

re_search(p, txt) == Procura(p, txt)

(* one turn of the loop of extrair_info: re.search, then                   *)
(* match.group(1).strip(); an exception of either is caught and logged     *)
Tentar(p, txt) ==
    IF p.erro THEN [tipo |-> "erro", s |-> <<>>]
    ELSE LET m == re_search(p, txt)
         IN  IF ~m.ok THEN [tipo |-> "nomatch", s |-> <<>>]
             ELSE IF p.g0 = 0 THEN [tipo |-> "erro", s |-> <<>>]
             ELSE [tipo |-> "match", s |-> strip(SubSeq(txt, m.gi, m.gf - 1))]

-----------------------------------------------------------------------------
(* ProcessadorPDF.extrair_info: ret is the value returned, tentados the    *)
(* indices of the patterns searched, erros the logging.error calls         *)

(* variant: a later match replaces an earlier one *)
RECURSIVE extrair_lista_ultimo(_, _, _, _, _)
extrair_lista_ultimo(txt, ps, k, tent, erros) ==
    IF k > Len(ps) THEN [ret |-> None, tentados |-> tent, erros |-> erros]
    ELSE LET r == Tentar(ps[k], txt)
             resto == extrair_lista_ultimo(txt, ps, k + 1, Append(tent, k),
                                           erros + (IF r.tipo = "erro" THEN 1 ELSE 0))
         IN  IF r.tipo = "match" /\ resto.ret = None
             THEN [ret |-> Str(r.s), tentados |-> resto.tentados, erros |-> resto.erros]
             ELSE resto

(* variant: the try block around the whole loop, so that the first         *)
(* exception ends the extraction                                           *)
RECURSIVE extrair_lista_try_externo(_, _, _, _, _)
extrair_lista_try_externo(txt, ps, k, tent, erros) ==
    IF k > Len(ps) THEN [ret |-> None, tentados |-> tent, erros |-> erros]
    ELSE LET r == Tentar(ps[k], txt)
         IN  CASE r.tipo = "match" ->
                    [ret |-> Str(r.s), tentados |-> Append(tent, k), erros |-> erros]
               [] r.tipo = "erro" ->
                    [ret |-> None, tentados |-> Append(tent, k), erros |-> erros + 1]
               [] OTHER ->
                    extrair_lista_try_externo(txt, ps, k + 1, Append(tent, k), erros)

RECURSIVE extrair_lista(_, _, _, _, _)
extrair_lista(txt, ps, k, tent, erros) ==
    IF k > Len(ps) THEN [ret |-> None, tentados |-> tent, erros |-> erros]
    ELSE LET r == Tentar(ps[k], txt)
         IN  CASE r.tipo = "match" ->
                    [ret |-> Str(r.s), tentados |-> Append(tent, k), erros |-> erros]
               [] r.tipo = "erro" ->
                    extrair_lista(txt, ps, k + 1, Append(tent, k), erros + 1)
               [] OTHER ->
                    extrair_lista(txt, ps, k + 1, Append(tent, k), erros)

(* padroes if isinstance(padroes, list) else [padroes]; an argument that   *)
(* is a single pattern and no list is held as [lista |-> FALSE, ps |-> <<p>>] *)
ComoLista(ps) == IF ps.lista THEN ps.ps ELSE <<ps.ps[1]>>

extrair_info(txt, ps) == extrair_lista(txt, ComoLista(ps), 1, <<>>, 0)

-----------------------------------------------------------------------------
(* Specification of extrair_info over bounded texts and pattern lists *)

AlfabetoTexto == {"a", "A", "1", " "}

Padrao(itens, g0, g1) == [itens |-> itens, g0 |-> g0, g1 |-> g1, erro |-> FALSE]

\* pattern  a\s*(\d+)
PadraoNumero ==
    Padrao(<<Lit("a"), Item(Brancos, FALSE, 0, -1, FALSE), Item(Digitos, FALSE, 1, -1, FALSE)>>, 3, 3)
\* pattern  A([^1]*)
PadraoResto == Padrao(<<Lit("A"), Item({"1"}, TRUE, 0, -1, FALSE)>>, 2, 2)
\* pattern  1(.*?)a
PadraoLazy == Padrao(<<Lit("1"), Item({}, TRUE, 0, -1, TRUE), Lit("a")>>, 2, 2)
\* pattern  (\d\s?\d)
PadraoPar ==
    Padrao(<<Item(Digitos, FALSE, 1, 1, FALSE), Item(Brancos, FALSE, 0, 1, FALSE),
             Item(Digitos, FALSE, 1, 1, FALSE)>>, 1, 3)
\* pattern  \d+  which has no group: match.group(1) raises IndexError
PadraoSemGrupo == Padrao(<<Item(Digitos, FALSE, 1, -1, FALSE)>>, 0, 0)
\* pattern  (\d+  which re.compile rejects (missing parenthesis)
PadraoInvalido == [itens |-> <<>>, g0 |-> 0, g1 |-> 0, erro |-> TRUE]

PadroesTeste ==
    {PadraoNumero, PadraoResto, PadraoLazy, PadraoPar, PadraoSemGrupo, PadraoInvalido}

EntradasPadroes ==
    {[lista |-> TRUE, ps |-> ps] : ps \in SeqsAte(PadroesTeste, MaxPadroes)}
      \cup {[lista |-> FALSE, ps |-> <<p>>] : p \in PadroesTeste}

InitExtrair ==
    /\ pc = "extrair_info"
    /\ texto \in SeqsAte(AlfabetoTexto, MaxTextoLen)
    /\ padroes \in EntradasPadroes
    /\ tentados = <<>>
    /\ retorno = None
    /\ log = <<>>
    /\ ValorParado /\ PdfParado /\ MainParado /\ ExcelParado /\ RelogioParado

ExtrairInfo ==
    /\ pc = "extrair_info"
    /\ LET r == extrair_info(texto, padroes)
       IN  /\ retorno' = r.ret
           /\ tentados' = r.tentados
           /\ log' = [k \in 1..r.erros |-> "error"]
    /\ pc' = "done"
    /\ UNCHANGED <<valor, texto, padroes, varsPdf, varsMain, varsExcel, varsRelogio>>

NextExtrair == ExtrairInfo

SpecExtrair == InitExtrair /\ [][NextExtrair]_vars

(* a pattern gives a match: it compiles, re.search finds it in the text    *)
(* and the match has a group 1                                             *)
Casou(p, txt) == ~p.erro /\ p.g0 # 0 /\ re_search(p, txt).ok

(* the text of group 1 of the match *)
Grupo1(p, txt) == LET m == re_search(p, txt) IN SubSeq(txt, m.gi, m.gf - 1)

(* s is cs without its leading and trailing blanks *)
Aparado(s, cs) ==
    /\ (s # <<>> => s[1] \notin Brancos /\ s[Len(s)] \notin Brancos)
    /\ \E a \in 0..Len(cs) :
          /\ a + Len(s) <= Len(cs)
          /\ s = SubSeq(cs, a + 1, a + Len(s))
          /\ \A k \in 1..Len(cs) : (k <= a \/ k > a + Len(s)) => cs[k] \in Brancos

Faixa(n) == [k \in 1..n |-> k]

\* C1: extrair_info returns the trimmed group 1 of the lowest-index pattern
\* that gives a match and searches no pattern after it; when no pattern
\* gives a match it has searched them all and returns None.
C1_PrimeiroPadraoVence ==
    pc = "done" =>
        LET ps == ComoLista(padroes)
            casam == {k \in 1..Len(ps) : Casou(ps[k], texto)}
        IN  IF casam = {}
            THEN retorno = None /\ tentados = Faixa(Len(ps))
            ELSE LET k == CHOOSE j \in casam : \A m \in casam : j <= m
                 IN  /\ retorno.t = "str"
                     /\ Aparado(retorno.s, Grupo1(ps[k], texto))
                     /\ tentados = Faixa(k)

(* both patterns of a two-pattern list match, group 1 of the first has     *)
(* blanks around it, and the first one's group is what came back           *)
C1_Witness ==
    /\ pc = "done"
    /\ padroes.lista
    /\ Len(padroes.ps) = 2
    /\ Casou(padroes.ps[1], texto)
    /\ Casou(padroes.ps[2], texto)
    /\ Grupo1(padroes.ps[1], texto) # Grupo1(padroes.ps[2], texto)
    /\ Len(Grupo1(padroes.ps[1], texto)) > Len(retorno.s)
    /\ retorno.s # <<>>
    /\ tentados = <<1>>

Levanta(p, txt) == p.erro \/ (p.g0 = 0 /\ re_search(p, txt).ok)

\* C9: a pattern that does not compile, or whose match has no group 1,
\* counts as no match from that pattern only: the patterns after it are
\* still searched, the result is the one the list gives without the
\* raising patterns, each failure is logged, and nothing is raised.
C9_ErroDePadraoNaoPropaga ==
    pc = "done" =>
        LET ps == ComoLista(padroes)
            bons == SelectSeq(ps, LAMBDA p : ~Levanta(p, texto))
            casam == {k \in 1..Len(bons) : Casou(bons[k], texto)}
        IN  /\ retorno.t \in {"None", "str"}
            /\ IF casam = {} THEN retorno = None
               ELSE LET k == CHOOSE j \in casam : \A m \in casam : j <= m
                    IN  retorno.t = "str" /\ Aparado(retorno.s, Grupo1(bons[k], texto))
            /\ Len(log) = Cardinality({k \in 1..Len(tentados) : Levanta(ps[tentados[k]], texto)})
            /\ \A k \in 1..Len(ps) :
                  (Levanta(ps[k], texto) /\ \A j \in 1..(k - 1) : ~Casou(ps[j], texto))
                      => /\ \E j \in 1..Len(tentados) : tentados[j] = k
                         /\ k < Len(ps) => \E j \in 1..Len(tentados) : tentados[j] = k + 1

(* the first pattern raised, the second matched and its group came back *)
C9_Witness ==
    /\ pc = "done"
    /\ padroes.lista
    /\ Len(padroes.ps) = 2
    /\ Levanta(padroes.ps[1], texto)
    /\ Casou(padroes.ps[2], texto)
    /\ retorno.t = "str"
    /\ tentados = <<1, 2>>
    /\ log = <<"error">>

-----------------------------------------------------------------------------
(* Field names, as the strings the code compares and searches *)

arquivo == <<"a", "r", "q", "u", "i", "v", "o">>
numero_nota == <<"n", "u", "m", "e", "r", "o", "_", "n", "o", "t", "a">>
data_emissao == <<"d", "a", "t", "a", "_", "e", "m", "i", "s", "s", "a", "o">>
cnpj_prestador == <<"c", "n", "p", "j", "_", "p", "r", "e", "s", "t", "a", "d", "o", "r">>
nome_prestador == <<"n", "o", "m", "e", "_", "p", "r", "e", "s", "t", "a", "d", "o", "r">>
cnpj_tomador == <<"c", "n", "p", "j", "_", "t", "o", "m", "a", "d", "o", "r">>
nome_tomador == <<"n", "o", "m", "e", "_", "t", "o", "m", "a", "d", "o", "r">>
valor_total == <<"v", "a", "l", "o", "r", "_", "t", "o", "t", "a", "l">>
base_calculo == <<"b", "a", "s", "e", "_", "c", "a", "l", "c", "u", "l", "o">>
iss == <<"i", "s", "s">>
aliquota_iss == <<"a", "l", "i", "q", "u", "o", "t", "a", "_", "i", "s", "s">>
municipio_prestacao == <<"m", "u", "n", "i", "c", "i", "p", "i", "o", "_", "p", "r", "e", "s", "t", "a", "c", "a", "o">>

-----------------------------------------------------------------------------
(* carregar_padroes: the catalog, one definition per pattern *)

\* NFS-e\s*n°\s*(\d+\.\d+)
padrao_numero_nota_1 ==
    Padrao(<<Lits(<<"N", "F", "S", "-", "e">>),
             Item(Brancos, FALSE, 0, -1, FALSE),
             Lits(<<"n", "°">>),
             Item(Brancos, FALSE, 0, -1, FALSE),
             Item(Digitos, FALSE, 1, -1, FALSE),
             Lits(<<".">>),
             Item(Digitos, FALSE, 1, -1, FALSE)>>,
           5, 7)

\* Nota Fiscal Eletrônica\s*N°\s*(\d+\.\d+)
padrao_numero_nota_2 ==
    Padrao(<<Lits(<<"N", "o", "t", "a", " ", "F", "i", "s", "c", "a",
                    "l", " ", "E", "l", "e", "t", "r", "ô",
                    "n", "i", "c", "a">>),
             Item(Brancos, FALSE, 0, -1, FALSE),
             Lits(<<"N", "°">>),
             Item(Brancos, FALSE, 0, -1, FALSE),
             Item(Digitos, FALSE, 1, -1, FALSE),
             Lits(<<".">>),
             Item(Digitos, FALSE, 1, -1, FALSE)>>,
           5, 7)

\* Data e Hora de Emissão\s*(\d{2}/\d{2}/\d{4}\s*\d{2}:\d{2}:\d{2})
padrao_data_emissao_1 ==
    Padrao(<<Lits(<<"D", "a", "t", "a", " ", "e", " ", "H", "o", "r",
                    "a", " ", "d", "e", " ", "E", "m", "i",
                    "s", "s", "ã", "o">>),
             Item(Brancos, FALSE, 0, -1, FALSE),
             Item(Digitos, FALSE, 2, 2, FALSE),
             Lits(<<"/">>),
             Item(Digitos, FALSE, 2, 2, FALSE),
             Lits(<<"/">>),
             Item(Digitos, FALSE, 4, 4, FALSE),
             Item(Brancos, FALSE, 0, -1, FALSE),
             Item(Digitos, FALSE, 2, 2, FALSE),
             Lits(<<":">>),
             Item(Digitos, FALSE, 2, 2, FALSE),
             Lits(<<":">>),
             Item(Digitos, FALSE, 2, 2, FALSE)>>,
           3, 13)

\* emitida em\s*(\d{2}/\d{2}/\d{4})
padrao_data_emissao_2 ==
    Padrao(<<Lits(<<"e", "m", "i", "t", "i", "d", "a", " ", "e", "m">>),
             Item(Brancos, FALSE, 0, -1, FALSE),
             Item(Digitos, FALSE, 2, 2, FALSE),
             Lits(<<"/">>),
             Item(Digitos, FALSE, 2, 2, FALSE),
             Lits(<<"/">>),
             Item(Digitos, FALSE, 4, 4, FALSE)>>,
           3, 7)

\* PRESTADOR DE SERVIÇOS.*?CPF/CNPJ\s*([\d./-]+)
padrao_cnpj_prestador_1 ==
    Padrao(<<Lits(<<"P", "R", "E", "S", "T", "A", "D", "O", "R", " ",
                    "D", "E", " ", "S", "E", "R", "V", "I",
                    "Ç", "O", "S">>),
             Item({}, TRUE, 0, -1, TRUE),
             Lits(<<"C", "P", "F", "/", "C", "N", "P", "J">>),
             Item(Brancos, FALSE, 0, -1, FALSE),
             Item(Digitos \cup {".", "/", "-"}, FALSE, 1, -1, FALSE)>>,
           5, 5)

\* Nome/Razão Social:\s*(.*?)\s*Endereço
padrao_nome_prestador_1 ==
    Padrao(<<Lits(<<"N", "o", "m", "e", "/", "R", "a", "z", "ã", "o",
                    " ", "S", "o", "c", "i", "a", "l", ":">>),
             Item(Brancos, FALSE, 0, -1, FALSE),
             Item({}, TRUE, 0, -1, TRUE),
             Item(Brancos, FALSE, 0, -1, FALSE),
             Lits(<<"E", "n", "d", "e", "r", "e", "ç", "o">>)>>,
           3, 3)

\* TOMADOR DE SERVIÇOS.*?C\.P\.F\./C\.N\.P\.J\.\s*([\d./-]+)
padrao_cnpj_tomador_1 ==
    Padrao(<<Lits(<<"T", "O", "M", "A", "D", "O", "R", " ", "D", "E",
                    " ", "S", "E", "R", "V", "I", "Ç", "O",
                    "S">>),
             Item({}, TRUE, 0, -1, TRUE),
             Lits(<<"C", ".", "P", ".", "F", ".", "/", "C", ".", "N",
                    ".", "P", ".", "J", ".">>),
             Item(Brancos, FALSE, 0, -1, FALSE),
             Item(Digitos \cup {".", "/", "-"}, FALSE, 1, -1, FALSE)>>,
           5, 5)

\* TOMADOR DE SERVIÇOS.*?Nome/Razão Social:\s*(.*?)\s*C\.P\.F\./C\.N\.P\.J\.
padrao_nome_tomador_1 ==
    Padrao(<<Lits(<<"T", "O", "M", "A", "D", "O", "R", " ", "D", "E",
                    " ", "S", "E", "R", "V", "I", "Ç", "O",
                    "S">>),
             Item({}, TRUE, 0, -1, TRUE),
             Lits(<<"N", "o", "m", "e", "/", "R", "a", "z", "ã", "o",
                    " ", "S", "o", "c", "i", "a", "l", ":">>),
             Item(Brancos, FALSE, 0, -1, FALSE),
             Item({}, TRUE, 0, -1, TRUE),
             Item(Brancos, FALSE, 0, -1, FALSE),
             Lits(<<"C", ".", "P", ".", "F", ".", "/", "C", ".", "N",
                    ".", "P", ".", "J", ".">>)>>,
           5, 5)

\* VALOR TOTAL DOS SERVIÇOS\s*=\s*R\$\s*([\d.,]+)
padrao_valor_total_1 ==
    Padrao(<<Lits(<<"V", "A", "L", "O", "R", " ", "T", "O", "T", "A",
                    "L", " ", "D", "O", "S", " ", "S", "E",
                    "R", "V", "I", "Ç", "O", "S">>),
             Item(Brancos, FALSE, 0, -1, FALSE),
             Lits(<<"=">>),
             Item(Brancos, FALSE, 0, -1, FALSE),
             Lits(<<"R", "$">>),
             Item(Brancos, FALSE, 0, -1, FALSE),
             Item(Digitos \cup {".", ","}, FALSE, 1, -1, FALSE)>>,
           7, 7)

\* Valor Total da Nota\s*R\$\s*([\d.,]+)
padrao_valor_total_2 ==
    Padrao(<<Lits(<<"V", "a", "l", "o", "r", " ", "T", "o", "t", "a",
                    "l", " ", "d", "a", " ", "N", "o", "t",
                    "a">>),
             Item(Brancos, FALSE, 0, -1, FALSE),
             Lits(<<"R", "$">>),
             Item(Brancos, FALSE, 0, -1, FALSE),
             Item(Digitos \cup {".", ","}, FALSE, 1, -1, FALSE)>>,
           5, 5)

\* Base de Calculo\s*\(R\$\)\s*([\d.,]+)
padrao_base_calculo_1 ==
    Padrao(<<Lits(<<"B", "a", "s", "e", " ", "d", "e", " ", "C", "a",
                    "l", "c", "u", "l", "o">>),
             Item(Brancos, FALSE, 0, -1, FALSE),
             Lits(<<"(", "R", "$", ")">>),
             Item(Brancos, FALSE, 0, -1, FALSE),
             Item(Digitos \cup {".", ","}, FALSE, 1, -1, FALSE)>>,
           5, 5)

\* Valor do ISS\s*\(R\$\)\s*([\d.,]+)
padrao_iss_1 ==
    Padrao(<<Lits(<<"V", "a", "l", "o", "r", " ", "d", "o", " ", "I",
                    "S", "S">>),
             Item(Brancos, FALSE, 0, -1, FALSE),
             Lits(<<"(", "R", "$", ")">>),
             Item(Brancos, FALSE, 0, -1, FALSE),
             Item(Digitos \cup {".", ","}, FALSE, 1, -1, FALSE)>>,
           5, 5)

\* Alíquota\s*\(%\)\s*([\d.,]+)
padrao_aliquota_iss_1 ==
    Padrao(<<Lits(<<"A", "l", "í", "q", "u", "o", "t", "a">>),
             Item(Brancos, FALSE, 0, -1, FALSE),
             Lits(<<"(", "%", ")">>),
             Item(Brancos, FALSE, 0, -1, FALSE),
             Item(Digitos \cup {".", ","}, FALSE, 1, -1, FALSE)>>,
           5, 5)

\* Município da Prestação de Serviços\s*(\d+\s*-\s*[^/]+/[A-Z]{2})
padrao_municipio_prestacao_1 ==
    Padrao(<<Lits(<<"M", "u", "n", "i", "c", "í", "p", "i", "o", " ",
                    "d", "a", " ", "P", "r", "e", "s", "t",
                    "a", "ç", "ã", "o", " ", "d", "e", " ",
                    "S", "e", "r", "v", "i", "ç", "o", "s">>),
             Item(Brancos, FALSE, 0, -1, FALSE),
             Item(Digitos, FALSE, 1, -1, FALSE),
             Item(Brancos, FALSE, 0, -1, FALSE),
             Lits(<<"-">>),
             Item(Brancos, FALSE, 0, -1, FALSE),
             Item({"/"}, TRUE, 1, -1, FALSE),
             Lits(<<"/">>),
             Item(AZ, FALSE, 2, 2, FALSE)>>,
           3, 9)

(* the keys of the dictionary, in the order of the literal *)
CamposCatalogo ==
    <<numero_nota,
      data_emissao,
      cnpj_prestador,
      nome_prestador,
      cnpj_tomador,
      nome_tomador,
      valor_total,
      base_calculo,
      iss,
      aliquota_iss,
      municipio_prestacao>>

carregar_padroes ==
    [c \in {CamposCatalogo[k] : k \in 1..Len(CamposCatalogo)} |->
        CASE c = numero_nota -> <<padrao_numero_nota_1, padrao_numero_nota_2>>
          [] c = data_emissao -> <<padrao_data_emissao_1, padrao_data_emissao_2>>
          [] c = cnpj_prestador -> <<padrao_cnpj_prestador_1>>
          [] c = nome_prestador -> <<padrao_nome_prestador_1>>
          [] c = cnpj_tomador -> <<padrao_cnpj_tomador_1>>
          [] c = nome_tomador -> <<padrao_nome_tomador_1>>
          [] c = valor_total -> <<padrao_valor_total_1, padrao_valor_total_2>>
          [] c = base_calculo -> <<padrao_base_calculo_1>>
          [] c = iss -> <<padrao_iss_1>>
          [] c = aliquota_iss -> <<padrao_aliquota_iss_1>>
          [] c = municipio_prestacao -> <<padrao_municipio_prestacao_1>>]

-----------------------------------------------------------------------------
(* ProcessadorPDF.processar_pdf *)

(* key in campo, for strings *)
Contem(key, campo) ==
    \E a \in 0..(Len(campo) - Len(key)) : SubSeq(campo, a + 1, a + Len(key)) = key

ChavesNumericas ==
    {<<"v", "a", "l", "o", "r">>, <<"i", "s", "s">>, <<"b", "a", "s", "e">>,
     <<"a", "l", "i", "q", "u", "o", "t", "a">>}

(* any(key in campo for key in ['valor', 'iss', 'base', 'aliquota']) *)
EhNumerico(campo) == \E key \in ChavesNumericas : Contem(key, campo)

(* "\n".join(page text for each page whose text is truthy); a page without *)
(* a text layer has the text <<>>                                          *)
RECURSIVE JuntaPaginas(_)
JuntaPaginas(pags) ==
    IF pags = <<>> THEN <<>>
    ELSE LET resto == JuntaPaginas(Tail(pags))
         IN  IF Head(pags) = <<>> THEN resto
             ELSE IF resto = <<>> /\ \A k \in 1..Len(Tail(pags)) : Tail(pags)[k] = <<>>
                  THEN Head(pags)
                  ELSE Head(pags) \o <<"\n">> \o resto

(* the value stored under one catalog field *)
ValorDoCampo(campo, txt, padroesDoCampo) ==
    LET v == extrair_info(txt, [lista |-> TRUE, ps |-> padroesDoCampo]).ret
    IN  IF EhNumerico(campo) THEN limpar_valor(v)
        ELSE IF Truthy(v) THEN v ELSE Str(<<>>)

(* a document is [nome, erro, paginas]: erro says that pdfplumber.open or  *)
(* extract_text raises for this file; the result is Nada for the None the  *)
(* code returns                                                            *)
processar_pdf(doc, cat) ==
    IF doc.erro THEN Nada
    ELSE LET txt == JuntaPaginas(doc.paginas)
         IN  IF txt = <<>> THEN Nada
             ELSE Algum([c \in {arquivo} \cup DOMAIN cat |->
                            IF c = arquivo THEN Str(doc.nome)
                            ELSE ValorDoCampo(c, txt, cat[c])])

(* what processar_pdf logs: an error for a failure, a warning for a file   *)
(* without text, and the warnings of limpar_valor                          *)
processar_pdf_log(doc, cat) ==
    IF doc.erro THEN <<"error">>
    ELSE LET txt == JuntaPaginas(doc.paginas)
         IN  IF txt = <<>> THEN <<"warning">> ELSE <<>>

-----------------------------------------------------------------------------
(* Specification of processar_pdf over documents of bounded length, built  *)
(* from page texts that exercise each pattern of the catalog               *)

\* VALOR TOTAL DOS SERVIÇOS = R$ 1.500,00\nNumero da Nota 123
pagina_teste ==
    <<"V", "A", "L", "O", "R", " ", "T", "O", "T", "A", "L", " ", "D", "O",
      "S", " ", "S", "E", "R", "V", "I", "Ç", "O", "S", " ", "=", " ", "R",
      "$", " ", "1", ".", "5", "0", "0", ",", "0", "0", "\n", "N", "u",
      "m", "e", "r", "o", " ", "d", "a", " ", "N", "o", "t", "a", " ", "1",
      "2", "3">>

\* NFS-e n° 12.345\nData e Hora de Emissão 01/02/2024 10:20:30\nMunicípio da Prestação de Serviços 35 - São Paulo/SP
pagina_cabecalho ==
    <<"N", "F", "S", "-", "e", " ", "n", "°", " ", "1", "2", ".", "3", "4",
      "5", "\n", "D", "a", "t", "a", " ", "e", " ", "H", "o", "r", "a",
      " ", "d", "e", " ", "E", "m", "i", "s", "s", "ã", "o", " ", "0", "1",
      "/", "0", "2", "/", "2", "0", "2", "4", " ", "1", "0", ":", "2", "0",
      ":", "3", "0", "\n", "M", "u", "n", "i", "c", "í", "p", "i", "o",
      " ", "d", "a", " ", "P", "r", "e", "s", "t", "a", "ç", "ã", "o", " ",
      "d", "e", " ", "S", "e", "r", "v", "i", "ç", "o", "s", " ", "3", "5",
      " ", "-", " ", "S", "ã", "o", " ", "P", "a", "u", "l", "o", "/", "S",
      "P">>

\* PRESTADOR DE SERVIÇOS CPF/CNPJ 12.3/01-9\nNome/Razão Social: Acme Ltda  Endereço\nTOMADOR DE SERVIÇOS\nNome/Razão Social:  Foo Bar \nC.P.F./C.N.P.J. 9.8-7
pagina_partes ==
    <<"P", "R", "E", "S", "T", "A", "D", "O", "R", " ", "D", "E", " ", "S",
      "E", "R", "V", "I", "Ç", "O", "S", " ", "C", "P", "F", "/", "C", "N",
      "P", "J", " ", "1", "2", ".", "3", "/", "0", "1", "-", "9", "\n",
      "N", "o", "m", "e", "/", "R", "a", "z", "ã", "o", " ", "S", "o", "c",
      "i", "a", "l", ":", " ", "A", "c", "m", "e", " ", "L", "t", "d", "a",
      " ", " ", "E", "n", "d", "e", "r", "e", "ç", "o", "\n", "T", "O",
      "M", "A", "D", "O", "R", " ", "D", "E", " ", "S", "E", "R", "V", "I",
      "Ç", "O", "S", "\n", "N", "o", "m", "e", "/", "R", "a", "z", "ã",
      "o", " ", "S", "o", "c", "i", "a", "l", ":", " ", " ", "F", "o", "o",
      " ", "B", "a", "r", " ", "\n", "C", ".", "P", ".", "F", ".", "/",
      "C", ".", "N", ".", "P", ".", "J", ".", " ", "9", ".", "8", "-", "7">>

\* Valor Total da Nota R$ 2,50\nBase de Calculo (R$) 1.000,00\nValor do ISS (R$) 0,00\nAlíquota (%) 5,00
pagina_valores ==
    <<"V", "a", "l", "o", "r", " ", "T", "o", "t", "a", "l", " ", "d", "a",
      " ", "N", "o", "t", "a", " ", "R", "$", " ", "2", ",", "5", "0",
      "\n", "B", "a", "s", "e", " ", "d", "e", " ", "C", "a", "l", "c",
      "u", "l", "o", " ", "(", "R", "$", ")", " ", "1", ".", "0", "0", "0",
      ",", "0", "0", "\n", "V", "a", "l", "o", "r", " ", "d", "o", " ",
      "I", "S", "S", " ", "(", "R", "$", ")", " ", "0", ",", "0", "0",
      "\n", "A", "l", "í", "q", "u", "o", "t", "a", " ", "(", "%", ")",
      " ", "5", ",", "0", "0">>

\* nota fiscal eletrônica n° 7.1 emitida em 03/04/2024\nvalor total dos serviços = r$ 1.2,3,4
pagina_alternativa ==
    <<"n", "o", "t", "a", " ", "f", "i", "s", "c", "a", "l", " ", "e", "l",
      "e", "t", "r", "ô", "n", "i", "c", "a", " ", "n", "°", " ", "7", ".",
      "1", " ", "e", "m", "i", "t", "i", "d", "a", " ", "e", "m", " ", "0",
      "3", "/", "0", "4", "/", "2", "0", "2", "4", "\n", "v", "a", "l",
      "o", "r", " ", "t", "o", "t", "a", "l", " ", "d", "o", "s", " ", "s",
      "e", "r", "v", "i", "ç", "o", "s", " ", "=", " ", "r", "$", " ", "1",
      ".", "2", ",", "3", ",", "4">>

pagina_sem_texto == <<>>

PaginasTeste ==
    {pagina_teste, pagina_cabecalho, pagina_partes, pagina_valores, pagina_alternativa,
     pagina_sem_texto}

nome_a == <<"a", ".", "p", "d", "f">>

Documentos ==
    {[nome |-> nome_a, erro |-> e, paginas |-> pags] :
        e \in BOOLEAN, pags \in SeqsAte(PaginasTeste, MaxPaginas)}

InitPdf ==
    /\ pc = "processar_pdf"
    /\ documento \in Documentos
    /\ dados = Nada
    /\ retorno = None
    /\ log = <<>>
    /\ ValorParado /\ ExtrairParado /\ MainParado /\ ExcelParado /\ RelogioParado

ProcessarPdf ==
    /\ pc = "processar_pdf"
    /\ dados' = processar_pdf(documento, carregar_padroes)
    /\ log' = log \o processar_pdf_log(documento, carregar_padroes)
    /\ pc' = "done"
    /\ UNCHANGED <<documento, retorno, varsValor, varsExtrair, varsMain, varsExcel,
                   varsRelogio>>

NextPdf == ProcessarPdf

SpecPdf == InitPdf /\ [][NextPdf]_vars

TextoDe(doc) == JuntaPaginas(doc.paginas)

(* what the catalog's patterns find for a field, None when none matches *)
Extraido(campo, txt) ==
    extrair_info(txt, [lista |-> TRUE, ps |-> carregar_padroes[campo]]).ret

CamposMonetarios == {valor_total, base_calculo, iss, aliquota_iss}

\* C2: in a record of processar_pdf only valor_total, base_calculo, iss and
\* aliquota_iss are numbers; every other catalog field holds the trimmed
\* captured string, case preserved, or the empty string when no pattern of
\* the field matched.
C2_SoMonetariosNumericos ==
    (pc = "done" /\ dados.ok) =>
        \A c \in DOMAIN carregar_padroes :
            IF c \in CamposMonetarios
            THEN dados.dados[c].t = "float"
            ELSE dados.dados[c] =
                    IF Extraido(c, TextoDe(documento)) = None
                    THEN Str(<<>>)
                    ELSE Extraido(c, TextoDe(documento))

\* C3: for the document whose text is "VALOR TOTAL DOS SERVIÇOS = R$ 1.500,00"
\* and "Numero da Nota 123", the record has valor_total 1500.0 and
\* numero_nota "123", and every other catalog column is there with its
\* default: 0 for the monetary ones, the empty string for the text ones.
C3_ExemploPontaAPonta ==
    (pc = "done" /\ ~documento.erro /\ TextoDe(documento) = pagina_teste) =>
        /\ dados.ok
        /\ DOMAIN dados.dados = {arquivo} \cup DOMAIN carregar_padroes
        /\ dados.dados[valor_total] = Float(1500, 1)
        /\ dados.dados[numero_nota] = Str(<<"1", "2", "3">>)
        /\ \A c \in DOMAIN carregar_padroes \ {valor_total, numero_nota} :
              dados.dados[c] = IF c \in CamposMonetarios THEN Float(0, 1) ELSE Str(<<>>)

-----------------------------------------------------------------------------
(* GeradorRelatorio.__init__ *)

Bool(b) == [t |-> "bool", s |-> <<>>, n |-> IF b THEN 1 ELSE 0, d |-> 1, e |-> ""]

DigitoChar == [k \in 0..9 |-> CHOOSE c \in Digitos : DigitoVal[c] = k]
DoisDigitos(n) == <<DigitoChar[(n \div 10) % 10], DigitoChar[n % 10]>>

(* variant: the name carries the hour and not the minute *)
strftime_hora(t) ==
    <<"2", "0", "2", "4", "0", "1">> \o DoisDigitos(1 + t \div 86400) \o <<"_">>
        \o DoisDigitos((t \div 3600) % 24)

(* datetime.now().strftime("%Y%m%d_%H%M"), the clock being t seconds after *)
(* 2024-01-01 00:00:00 and within that month: the seconds are dropped      *)
strftime(t) ==
    <<"2", "0", "2", "4", "0", "1">> \o DoisDigitos(1 + t \div 86400) \o <<"_">>
        \o DoisDigitos((t \div 3600) % 24) \o DoisDigitos((t \div 60) % 60)

(* criado is the time of construction, kept to state the claims; the code  *)
(* keeps saida_arquivo only                                                *)
GeradorRelatorio(t) ==
    [saida_arquivo |-> <<"d", "a", "d", "o", "s", "_", "e", "x", "t", "r", "a", "i", "d", "o", "s", "_">>
                          \o strftime(t) \o <<".", "x", "l", "s", "x">>,
     criado |-> t]

-----------------------------------------------------------------------------
(* GeradorRelatorio.gerar_excel *)

colunas ==
    <<arquivo, numero_nota, data_emissao, cnpj_prestador, nome_prestador,
      cnpj_tomador, nome_tomador, valor_total, base_calculo, iss, aliquota_iss,
      municipio_prestacao>>

Imagem(f) == {f[k] : k \in DOMAIN f}

(* variant: iss left out of the dictionary given to fillna *)
ColunasPreenchidas_sem_iss == {valor_total, base_calculo, aliquota_iss}

(* the keys of the dictionary given to fillna, each with the value 0 *)
ColunasPreenchidas == {valor_total, base_calculo, iss, aliquota_iss}

EhNulo(v) == v.t \in {"None", "NaN"}

(* pd.DataFrame(registros): a row per record, a column per key of any      *)
(* record, NaN where a record has no such key.  The order of the columns   *)
(* is left out: df[colunas] below fixes it.                                *)
DataFrame(regs) ==
    LET cols == UNION {DOMAIN regs[k] : k \in 1..Len(regs)}
    IN  [cols |-> cols,
         linhas |-> [k \in 1..Len(regs) |->
                        [c \in cols |-> IF c \in DOMAIN regs[k] THEN regs[k][c] ELSE NaN]]]

(* for col in colunas: if col not in df.columns: df[col] = None *)
GaranteColunas(df) ==
    [cols |-> df.cols \cup Imagem(colunas),
     linhas |-> [k \in 1..Len(df.linhas) |->
                    [c \in df.cols \cup Imagem(colunas) |->
                        IF c \in df.cols THEN df.linhas[k][c] ELSE None]]]

(* df[colunas] *)
Seleciona(df) ==
    [cols |-> Imagem(colunas),
     linhas |-> [k \in 1..Len(df.linhas) |-> [c \in Imagem(colunas) |-> df.linhas[k][c]]]]

(* .fillna({...: 0}) *)
fillna(df) ==
    [cols |-> df.cols,
     linhas |-> [k \in 1..Len(df.linhas) |->
                    [c \in df.cols |->
                        IF c \in ColunasPreenchidas /\ EhNulo(df.linhas[k][c])
                        THEN Float(0, 1)
                        ELSE df.linhas[k][c]]]]

(* df.to_excel(path, index=False): the header, then a row per line with    *)
(* its cells in the order of the columns; a null cell is written as        *)
(* na_rep, which is '' by default                                          *)
to_excel(df) ==
    [cabecalho |-> colunas,
     linhas |-> [k \in 1..Len(df.linhas) |->
                    [j \in 1..Len(colunas) |->
                        IF EhNulo(df.linhas[k][colunas[j]])
                        THEN Str(<<>>)
                        ELSE df.linhas[k][colunas[j]]]]]

SemTabela == [cabecalho |-> <<>>, linhas |-> <<>>]

(* variant: no test of the empty list *)
gerar_excel_sem_guarda(regs, falha) ==
    IF falha
    THEN [ret |-> FALSE, escreve |-> FALSE, tabela |-> SemTabela, log |-> <<"error">>]
    ELSE [ret |-> TRUE, escreve |-> TRUE,
          tabela |-> to_excel(fillna(Seleciona(GaranteColunas(DataFrame(regs))))),
          log |-> <<"info">>]

(* falha: an exception inside the try block (to_excel cannot write) *)
gerar_excel(regs, falha) ==
    IF regs = <<>>
    THEN [ret |-> FALSE, escreve |-> FALSE, tabela |-> SemTabela, log |-> <<"warning">>]
    ELSE IF falha
    THEN [ret |-> FALSE, escreve |-> FALSE, tabela |-> SemTabela, log |-> <<"error">>]
    ELSE [ret |-> TRUE, escreve |-> TRUE,
          tabela |-> to_excel(fillna(Seleciona(GaranteColunas(DataFrame(regs))))),
          log |-> <<"info">>]

(* the call of gerar_excel on the run's GeradorRelatorio *)
GerarExcel ==
    /\ pc = "gerar_excel"
    /\ \E falha \in BOOLEAN :
          LET r == gerar_excel(registros, falha)
              novo == [caminho |-> gerador.saida_arquivo, execucao |-> execucao,
                       chamada |-> Len(chamadas) + 1, criado |-> gerador.criado,
                       tabela |-> r.tabela]
              antigos == {f \in disco : f.caminho = gerador.saida_arquivo}
          IN  /\ retorno' = Bool(r.ret)
              /\ chamadas' = Append(chamadas, registros)
              /\ disco' = IF r.escreve THEN (disco \ antigos) \cup {novo} ELSE disco
              /\ sobrescritos' =
                    IF r.escreve
                    THEN sobrescritos \cup {[antigo |-> f, novo |-> novo] : f \in antigos}
                    ELSE sobrescritos
              /\ log' = log \o r.log
    /\ pc' = "fim"
    /\ UNCHANGED <<gerador, varsValor, varsExtrair, varsPdf, varsMain, varsRelogio>>

-----------------------------------------------------------------------------
(* Specification of gerar_excel over bounded lists of records, some of     *)
(* which lack fields of the schema or hold None                            *)

obs == <<"o", "b", "s">>

EstadosDeCampo == {"falta", "None", "valor"}

ValorTeste(c) ==
    CASE c = arquivo -> Str(<<"a", ".", "p", "d", "f">>)
      [] c = iss -> Float(505, 10)
      [] c = nome_tomador -> Str(<<"F", "o", "o">>)
      [] OTHER -> Str(<<"x">>)

RegistroTeste(e) ==
    [c \in {k \in DOMAIN e : e[k] # "falta"} |->
        IF e[c] = "None" THEN None ELSE ValorTeste(c)]

RegistrosTeste ==
    {RegistroTeste(e) :
        e \in {f \in [{arquivo, iss, nome_tomador, obs} -> EstadosDeCampo] :
                  f[arquivo] # "None" /\ f[obs] # "None"}}

InitExcel ==
    /\ pc = "gerar_excel"
    /\ registros \in SeqsAte(RegistrosTeste, MaxRegistros)
    /\ gerador = GeradorRelatorio(0)
    /\ relogio = 0
    /\ execucao = 1
    /\ chamadas = <<>>
    /\ disco = {}
    /\ sobrescritos = {}
    /\ pasta = SemPasta
    /\ arquivos = <<>>
    /\ idx = 0
    /\ processados = <<>>
    /\ retorno = None
    /\ log = <<>>
    /\ ValorParado /\ ExtrairParado /\ PdfParado

NextExcel == GerarExcel

SpecExcel == InitExcel /\ [][NextExcel]_vars

\* C6: every row of a table gerar_excel writes has the 12 columns of the
\* schema, in the schema's order, one row per record in the records' order:
\* a cell holds the record's value, or, when the record has no such field
\* or holds None there, 0 in valor_total, base_calculo, iss and
\* aliquota_iss and the empty string in the other columns.
C6_TodasAsColunas ==
    (pc = "fim" /\ retorno = Bool(TRUE)) =>
        /\ Len(colunas) = 12
        /\ \E f \in disco :
              /\ f.caminho = gerador.saida_arquivo
              /\ f.tabela.cabecalho = colunas
              /\ Len(f.tabela.linhas) = Len(registros)
              /\ \A k \in 1..Len(registros) :
                    /\ Len(f.tabela.linhas[k]) = 12
                    /\ \A j \in 1..12 :
                          LET c == colunas[j]
                              r == registros[k]
                          IN  f.tabela.linhas[k][j] =
                                 IF c \in DOMAIN r /\ r[c].t \notin {"None", "NaN"}
                                 THEN r[c]
                                 ELSE IF c \in {valor_total, base_calculo, iss, aliquota_iss}
                                      THEN Float(0, 1)
                                      ELSE Str(<<>>)

(* a table was written from two records, the first without iss and the     *)
(* second with None as nome_tomador                                        *)
C6_Witness ==
    /\ pc = "fim"
    /\ retorno = Bool(TRUE)
    /\ disco # {}
    /\ Len(registros) = 2
    /\ iss \notin DOMAIN registros[1]
    /\ iss \in DOMAIN registros[2]
    /\ nome_tomador \in DOMAIN registros[2]
    /\ registros[2][nome_tomador] = None

-----------------------------------------------------------------------------
(* main *)

(* the character os.listdir gives for a byte of a file name that the file  *)
(* system encoding cannot decode (a lone surrogate): print raises          *)
(* UnicodeEncodeError on it                                                *)
Substituto == "<udcff>"

Imprimivel(nome) == \A k \in 1..Len(nome) : nome[k] # Substituto

(* f.lower().endswith('.pdf') *)
EhPdf(nome) ==
    /\ Len(nome) >= 4
    /\ [k \in 1..4 |-> Minuscula(nome[Len(nome) - 4 + k])] = <<".", "p", "d", "f">>

Nomes(docs) == [k \in 1..Len(docs) |-> docs[k].nome]

(* lines 199-207: the configuration, the catalog and the objects of the run *)
Iniciar ==
    /\ pc = "main"
    /\ gerador' = GeradorRelatorio(relogio)
    /\ registros' = <<>>
    /\ pc' = "listar"
    /\ UNCHANGED <<retorno, log, pasta, arquivos, idx, processados, chamadas, disco,
                   sobrescritos, varsValor, varsExtrair, varsPdf, varsRelogio>>

(* lines 209-215: os.listdir, which raises for a directory that cannot be  *)
(* read, and the return when there is no .pdf entry                        *)
Listar ==
    /\ pc = "listar"
    /\ IF ~pasta.listavel
       THEN /\ pc' = "fatal"
            /\ log' = Append(log, "error")
            /\ UNCHANGED <<arquivos, idx>>
       ELSE /\ arquivos' = SelectSeq(pasta.entradas, LAMBDA f : EhPdf(f.nome))
            /\ idx' = 1
            /\ pc' = IF arquivos' = <<>> THEN "sem_pdf" ELSE "loop"
            /\ log' = log
    /\ UNCHANGED <<retorno, pasta, registros, processados, varsExcel, varsValor,
                   varsExtrair, varsPdf, varsRelogio>>

(* variant: processar_pdf without its try block, so that a file that fails *)
(* ends the loop in the handler of main                                    *)
ProcessarArquivo_sem_try ==
    /\ pc = "loop"
    /\ LET f == arquivos[idx]
       IN  IF ~Imprimivel(f.nome) \/ f.erro
           THEN /\ pc' = "fatal"
                /\ log' = Append(log, "error")
                /\ UNCHANGED <<idx, registros, processados>>
           ELSE LET r == processar_pdf(f, carregar_padroes)
                IN  /\ processados' = Append(processados, f.nome)
                    /\ registros' = IF r.ok THEN Append(registros, r.dados) ELSE registros
                    /\ log' = log \o processar_pdf_log(f, carregar_padroes)
                    /\ idx' = idx + 1
                    /\ pc' = IF idx = Len(arquivos) THEN "gerar_excel" ELSE "loop"
    /\ UNCHANGED <<retorno, pasta, arquivos, varsExcel, varsValor, varsExtrair, varsPdf,
                   varsRelogio>>

(* variant: the handler of main writes the records gathered so far *)
ProcessarArquivo_grava_parcial ==
    /\ pc = "loop"
    /\ LET f == arquivos[idx]
       IN  IF ~Imprimivel(f.nome)
           THEN /\ pc' = "gerar_excel"
                /\ log' = Append(log, "error")
                /\ UNCHANGED <<idx, registros, processados>>
           ELSE LET r == processar_pdf(f, carregar_padroes)
                IN  /\ processados' = Append(processados, f.nome)
                    /\ registros' = IF r.ok THEN Append(registros, r.dados) ELSE registros
                    /\ log' = log \o processar_pdf_log(f, carregar_padroes)
                    /\ idx' = idx + 1
                    /\ pc' = IF idx = Len(arquivos) THEN "gerar_excel" ELSE "loop"
    /\ UNCHANGED <<retorno, pasta, arquivos, varsExcel, varsValor, varsExtrair, varsPdf,
                   varsRelogio>>

(* lines 217-223, one turn of the loop: the print of the name, which       *)
(* raises for a name that cannot be encoded and so ends the run in the     *)
(* handler of lines 234-236; then processar_pdf and the append             *)
ProcessarArquivo ==
    /\ pc = "loop"
    /\ LET f == arquivos[idx]
       IN  IF ~Imprimivel(f.nome)
           THEN /\ pc' = "fatal"
                /\ log' = Append(log, "error")
                /\ UNCHANGED <<idx, registros, processados>>
           ELSE LET r == processar_pdf(f, carregar_padroes)
                IN  /\ processados' = Append(processados, f.nome)
                    /\ registros' = IF r.ok THEN Append(registros, r.dados) ELSE registros
                    /\ log' = log \o processar_pdf_log(f, carregar_padroes)
                    /\ idx' = idx + 1
                    /\ pc' = IF idx = Len(arquivos) THEN "gerar_excel" ELSE "loop"
    /\ UNCHANGED <<retorno, pasta, arquivos, varsExcel, varsValor, varsExtrair, varsPdf,
                   varsRelogio>>

-----------------------------------------------------------------------------
(* Specification of a run of main over directories of bounded size *)

nome_B == <<"B", ".", "P", "D", "F">>
nome_c == <<"c", ".", "P", "d", "f">>
nome_txt == <<"n", ".", "t", "x", "t">>
nome_s == <<Substituto, ".", "p", "d", "f">>

NomesPdfTeste == {nome_a, nome_B, nome_c, nome_s}

ConteudosTeste ==
    {[erro |-> FALSE, paginas |-> <<pagina_teste>>],
     [erro |-> FALSE, paginas |-> <<pagina_sem_texto>>],
     [erro |-> TRUE, paginas |-> <<>>]}

EntradasTeste ==
    {[nome |-> n, erro |-> c.erro, paginas |-> c.paginas] :
        n \in NomesPdfTeste, c \in ConteudosTeste}
      \cup {[nome |-> nome_txt, erro |-> FALSE, paginas |-> <<pagina_teste>>]}

(* the names of a directory are distinct *)
Pastas ==
    {[listavel |-> TRUE, entradas |-> es] :
        es \in {q \in SeqsAte(EntradasTeste, MaxArquivos) :
                   \A i, j \in 1..Len(q) : i # j => q[i].nome # q[j].nome}}
      \cup {[listavel |-> FALSE, entradas |-> <<>>]}

InitMain ==
    /\ pc = "main"
    /\ pasta \in Pastas
    /\ arquivos = <<>>
    /\ idx = 0
    /\ registros = <<>>
    /\ processados = <<>>
    /\ relogio = 0
    /\ execucao = 1
    /\ retorno = None
    /\ log = <<>>
    /\ ExcelParado /\ ValorParado /\ ExtrairParado /\ PdfParado

NextMain == Iniciar \/ Listar \/ ProcessarArquivo \/ GerarExcel

SpecMain == InitMain /\ [][NextMain]_vars

(* the files processar_pdf gives a record for *)
ComTexto(f) == ~f.erro /\ \E k \in 1..Len(f.paginas) : f.paginas[k] # <<>>

\* C5: when the directory can be listed and the names can be printed, the
\* run never ends in the fatal handler whatever files fail to open or have
\* no text: every enumerated file is given to processar_pdf, a failing or
\* empty one gives None and is skipped, and gerar_excel receives one record
\* per file that succeeded, in the order of the enumeration.
C5_LoteNuncaAborta ==
    (pasta.listavel /\ \A k \in 1..Len(arquivos) : Imprimivel(arquivos[k].nome)) =>
        /\ pc # "fatal"
        /\ pc \in {"gerar_excel", "fim"} =>
              /\ processados = Nomes(arquivos)
              /\ [k \in 1..Len(registros) |-> registros[k][arquivo]]
                    = [k \in 1..Len(SelectSeq(arquivos, ComTexto)) |->
                          Str(SelectSeq(arquivos, ComTexto)[k].nome)]
        /\ pc = "fim" => chamadas = <<registros>>
        /\ \A k \in 1..Len(arquivos) :
              ~ComTexto(arquivos[k]) => processar_pdf(arquivos[k], carregar_padroes) = Nada

(* three files: the first fails to open, the second has no text, the third *)
(* gave the only record                                                    *)
C5_Witness ==
    /\ pc = "fim"
    /\ Len(arquivos) = 3
    /\ arquivos[1].erro
    /\ ~arquivos[2].erro /\ ~ComTexto(arquivos[2])
    /\ ComTexto(arquivos[3])
    /\ Len(registros) = 1
    /\ chamadas = <<registros>>

\* C8: gerar_excel called with the empty list returns False and writes
\* nothing; and when the directory has no .pdf entry main returns without
\* calling gerar_excel.
C8_LoteVazio ==
    /\ (pc = "fim" /\ chamadas # <<>> /\ chamadas[Len(chamadas)] = <<>>) =>
          retorno = Bool(FALSE) /\ disco = {}
    /\ pc = "sem_pdf" => chamadas = <<>> /\ disco = {}
    /\ (/\ pasta.listavel
        /\ pc \notin {"main", "listar"}
        /\ \A k \in 1..Len(pasta.entradas) : ~EhPdf(pasta.entradas[k].nome))
          => pc = "sem_pdf"

(* two .pdf files, none gave a record, and gerar_excel was called *)
C8_Witness ==
    /\ pc = "fim"
    /\ Len(arquivos) = 2
    /\ registros = <<>>
    /\ chamadas = <<<<>>>>
    /\ retorno = Bool(FALSE)
    /\ disco = {}

PassosDeMain ==
    {<<"main", "listar">>, <<"listar", "loop">>, <<"listar", "sem_pdf">>,
     <<"listar", "fatal">>, <<"loop", "loop">>, <<"loop", "gerar_excel">>,
     <<"loop", "fatal">>, <<"gerar_excel", "fim">>}

C10_Estado ==
    /\ Len(chamadas) <= 1
    /\ Cardinality(disco) <= 1
    /\ sobrescritos = {}
    /\ chamadas # <<>> => pc = "fim" /\ arquivos # <<>> /\ processados = Nomes(arquivos)
    /\ disco # {} => chamadas # <<>>
    /\ pc = "fatal" => chamadas = <<>> /\ disco = {}

\* C10: in a run of main the steps follow the order listing, per-file
\* processing, report; gerar_excel is called at most once, only after every
\* enumerated file has been through processar_pdf, and at most one file is
\* written; a run that ends in the fatal handler has called gerar_excel not
\* at all and has written nothing, whatever records it had gathered.
C10_RelatorioSoNoFim ==
    /\ []C10_Estado
    /\ [][(<<pc, pc'>>) \in PassosDeMain]_vars

(* the run ended in the fatal handler with a record already gathered *)
C10_Witness ==
    /\ pc = "fatal"
    /\ Len(registros) = 1
    /\ processados # <<>>
    /\ chamadas = <<>>
    /\ disco = {}

-----------------------------------------------------------------------------
(* Specification of several runs of the program, and of several calls of   *)
(* gerar_excel in a run, as the clock advances                             *)

RegistroCompleto ==
    processar_pdf([nome |-> nome_a, erro |-> FALSE, paginas |-> <<pagina_teste>>],
                  carregar_padroes).dados

InitRuns ==
    /\ pc = "parado"
    /\ relogio = 0
    /\ execucao = 0
    /\ registros = <<RegistroCompleto>>
    /\ pasta = SemPasta
    /\ arquivos = <<>>
    /\ idx = 0
    /\ processados = <<>>
    /\ retorno = None
    /\ log = <<>>
    /\ ExcelParado /\ ValorParado /\ ExtrairParado /\ PdfParado

PassaTempo ==
    /\ relogio + PassoRelogio <= MaxRelogio
    /\ relogio' = relogio + PassoRelogio
    /\ UNCHANGED <<pc, retorno, log, execucao, varsValor, varsExtrair, varsPdf, varsMain,
                   varsExcel>>

(* a run of the program up to the call of gerar_excel: line 204 builds the *)
(* GeradorRelatorio, and the records are there                             *)
NovaExecucao ==
    /\ pc \in {"parado", "fim"}
    /\ execucao < MaxExecucoes
    /\ execucao' = execucao + 1
    /\ gerador' = GeradorRelatorio(relogio)
    /\ pc' = "gerar_excel"
    /\ UNCHANGED <<retorno, log, relogio, chamadas, disco, sobrescritos, varsValor,
                   varsExtrair, varsPdf, varsMain>>

(* gerar_excel called once more on the same GeradorRelatorio *)
OutraChamada ==
    /\ pc = "fim"
    /\ Len(chamadas) < MaxChamadas
    /\ pc' = "gerar_excel"
    /\ UNCHANGED <<retorno, log, varsValor, varsExtrair, varsPdf, varsMain, varsExcel,
                   varsRelogio>>

NextRuns == PassaTempo \/ NovaExecucao \/ OutraChamada \/ GerarExcel

SpecRuns == InitRuns /\ [][NextRuns]_vars

\* C7 as stated: no write of gerar_excel replaces a file that an earlier run
\* or an earlier call wrote.
C7_NuncaSobrescreve == sobrescritos = {}

\* C7 as amended: a write of gerar_excel replaces an earlier file only when
\* the GeradorRelatorio objects of both were built within the same minute
\* of the clock (the same object included); files of objects built in
\* different minutes have different paths and stay side by side, and no two
\* files on the disk are of the same minute.
C7_SobrescreveSoNoMesmoMinuto ==
    /\ \A w \in sobrescritos : w.antigo.criado \div 60 = w.novo.criado \div 60
    /\ \A f, g \in disco :
          (f.criado \div 60 = g.criado \div 60) <=> (f.caminho = g.caminho)
    /\ \A f, g \in disco : f.caminho = g.caminho => f = g

(* two runs built their GeradorRelatorio in different minutes and both     *)
(* files are on the disk                                                   *)
C7_Witness ==
    /\ pc = "fim"
    /\ \E f, g \in disco :
          /\ f.execucao # g.execucao
          /\ f.criado \div 60 # g.criado \div 60
          /\ f.caminho # g.caminho

=============================================================================
